---- MODULE Spec2Model ----
(***************************************************************************)
(* Model of the chat hub of backend/main.go: the Hub event loop (register, *)
(* unregister, room-scoped broadcast with eviction of slow consumers), the *)
(* per-connection readPump and writePump, and handleWebSocket.             *)
(*                                                                         *)
(* The three hub channels are unbuffered: a send on one of them is a       *)
(* rendezvous with the hub's select, so each "accept" action below moves   *)
(* the sender past its send and the hub into the matching case at once.    *)
(* Each case of the select is one action: the hub is a single goroutine,   *)
(* and what the range loop of the broadcast case does to one client is     *)
(* independent of the order in which it visits the others.                 *)
(***************************************************************************)
EXTENDS Naturals, Sequences, FiniteSets

(* ------------------------------ bounds ------------------------------- *)

\* Number of upgrade requests (connections) the model follows.
NumConns == 2

\* Inbound data frames the peers send in total.
MaxFrames == 2

\* Capacity of a client's send channel (256 in the source, scaled down).
QueueCap == 2

\* Connections whose handshake succeeds in the timed specification.
TimedConns == 1

(* ------------------------- program constants ------------------------- *)

\* Read deadline window in seconds (60 * time.Second).
ReadWait == 60

\* Period of the ping ticker in seconds (54 * time.Second).
PingPeriod == 54

RECURSIVE GCD(_, _)
GCD(a, b) == IF b = 0 THEN a ELSE GCD(b, a % b)

\* Granularity of the clock: every timer of the program expires on a
\* multiple of it.
TimeUnit == GCD(ReadWait, PingPeriod)

Conns == 1..NumConns

\* Values of the username and room query parameters ("" is absent).
Queries ==
    {[username |-> "", room |-> ""], [username |-> "alice", room |-> ""],
     [username |-> "alice", room |-> "random"]}

\* What a peer may put in a frame: an undecodable text, or a JSON object
\* with any type, username, content and room.
Malformed ==
    [wellFormed |-> FALSE, type |-> "", username |-> "", content |-> "",
     room |-> ""]
PayloadNames == {"alice", "mallory"}
PayloadRooms == {"random", "lobby"}
Payloads ==
    {Malformed} \cup
    [wellFormed : {TRUE}, type : {"message"}, username : PayloadNames,
     content : {"hi"}, room : PayloadRooms]

\* The zero Message. Timestamp is left out: nothing reads it. seq is a
\* history field, the index of the message among the broadcasts the hub
\* accepted (0: not yet accepted).
NoMsg == [type |-> "", username |-> "", content |-> "", room |-> "", seq |-> 0]

VARIABLES
    clients,     \* Hub.clients: the set of registered clients
    send,        \* Client.send: the buffered channel's contents
    closed,      \* Client.send has been closed
    username,    \* Client.username
    room,        \* Client.room
    connClosed,  \* Client.conn.Close() has been called
    hubMsg,      \* Hub.Run: the message of the last broadcast case
    opc,         \* handleWebSocket: position of the handler of a request
    rpc,         \* readPump: position
    rmsg,        \* readPump: the stamped message it is sending to the hub
    wpc,         \* writePump: position
    wire,        \* messages written to the peer, in order
    closeSent,   \* a close message was written to the peer
    rdl,         \* seconds left until the read deadline of the connection
    tkr,         \* seconds left until the ping ticker fires
    tickC,       \* ticker.C holds a tick that writePump has not taken
    pong,        \* a pong of the peer is on its way
    panicked,    \* the process died of a runtime panic
    nacc,        \* history: broadcasts the hub accepted so far
    frames,      \* history: data frames the peers sent so far
    regs,        \* history: times a client was added to Hub.clients
    removes,     \* history: times a client was deleted from Hub.clients
    closes,      \* history: times close(client.send) was executed
    evictedBy,   \* history: seq of the broadcast that evicted the client
    unregd,      \* history: clients deleted by the unregister case
    sincePong,   \* history: seconds since readPump started or the last pong
    sinceFrame,  \* history: seconds since the last inbound frame or pong
    rerr,        \* history: why readPump left its loop
    badRead,     \* history: frames of the client that did not decode
    heartbeat    \* history: "ok" after a prompt pong, "lapse" once a ping
                 \* or pong was late, unanswered, or no writePump ran

vars ==
    <<clients, send, closed, username, room, connClosed, hubMsg,
      opc, rpc, rmsg, wpc, wire, closeSent, rdl, tkr, tickC,
      pong, panicked, nacc, frames, regs, removes, closes, evictedBy, unregd,
      sincePong, sinceFrame, rerr, badRead, heartbeat>>

(* ------------------------------ helpers ------------------------------ *)

Min(a, b) == IF a < b THEN a ELSE b

Monus(a, b) == IF a > b THEN a - b ELSE 0

\* handleWebSocket: a missing username or room gets its default.
DefaultName(u) == IF u = "" THEN "Anonymous" ELSE u

DefaultRoom(r) == IF r = "" THEN "general" ELSE r

\* A join notification that does not name the user.
JoinMsgNoContent(u, r) ==
    [type |-> "join", username |-> u, content |-> " joined the room",
     room |-> r, seq |-> 0]

\* handleWebSocket: the join notification of a new client.
JoinMsg(u, r) ==
    [type |-> "join", username |-> u, content |-> u \o " joined the room",
     room |-> r, seq |-> 0]

\* A writePump whose deferred function leaves the connection open.
WritePumpDeferNoClose(cc, c) == cc

\* The deferred function of writePump: c.conn.Close().
WritePumpDefer(cc, c) == [cc EXCEPT ![c] = TRUE]

\* A receive that reports a closed channel while messages are buffered.
RecvClosedEarly(q, cl) == cl

\* message, ok := <-c.send yields ok = false: the channel is closed and
\* no buffered message is left.
RecvClosed(q, cl) == q = <<>> /\ cl

\* A pong handler that leaves the read deadline alone.
DeadlineAfterPongKeep(d) == d

\* An unregister case that closes the channel but keeps the client.
UnregisterKeep(cl, c) == cl

\* delete(h.clients, client) of the unregister case.
UnregisterDelete(cl, c) == cl \ {c}

\* A send that puts the message ahead of the buffered ones.
EnqueueFront(q, m) == <<m>> \o q

\* client.send <- message on a channel with room left.
Enqueue(q, m) == Append(q, m)

\* A decoder that accepts every payload.
DecodesAny(p) == TRUE

\* json.Unmarshal returns no error.
Decodes(p) == p.wellFormed

\* A readPump that trusts the payload's username and room.
StampTrusting(c, p) ==
    [type |-> p.type, username |-> p.username, content |-> p.content,
     room |-> p.room, seq |-> 0]

\* readPump: json.Unmarshal keeps the payload's type and content; the
\* username and the room are then overwritten with the client's own.
Stamp(c, p) ==
    [type |-> p.type, username |-> username[c], content |-> p.content,
     room |-> room[c], seq |-> 0]

\* A broadcast without the room filter.
RoomMatchAll(c, m) == TRUE

\* Hub.Run, broadcast case: the room filter.
RoomMatch(c, m) == room[c] = m.room

\* A plain send, which blocks on a full channel.
SelectSendBlocking(q) == IF Len(q) < QueueCap THEN "sent" ELSE "blocked"

\* Hub.Run, broadcast case: the select with a default. "sent" when the
\* channel has room, "default" when the send would block ("blocked" is the
\* outcome of a plain send on a full channel, which the select never has).
SelectSend(q) == IF Len(q) < QueueCap THEN "sent" ELSE "default"

\* An eviction that leaves the channel open.
EvictNoClose(cf, full) == cf

\* Hub.Run, broadcast case: close(client.send) of the default branch, for
\* the clients whose channel is full.
EvictClose(cf, full) == [c \in Conns |-> cf[c] \/ c \in full]

\* An eviction that leaves the client in the set.
EvictKeep(cl, full) == cl

\* Hub.Run, broadcast case: delete(h.clients, client) of the default branch.
EvictDelete(cl, full) == cl \ full

\* An unregister case without the presence test.
PresentAlways(cl, c) == TRUE

\* An unregister case whose presence test never succeeds.
PresentNever(cl, c) == FALSE

\* Hub.Run, unregister case: the presence test.
Present(cl, c) == c \in cl

\* A register case that loses the client.
RegisterDrop(cl, c) == cl

\* Hub.Run, register case.
RegisterAdd(cl, c) == cl \cup {c}

\* A receive that takes the newest message.
RecvNewest(q) == [msg |-> q[Len(q)], rest |-> SubSeq(q, 1, Len(q) - 1)]

\* writePump: the receive from the send channel takes the oldest message.
Recv(q) == [msg |-> Head(q), rest |-> Tail(q)]

\* A read loop that renews the deadline after each frame.
DeadlineAfterFrameReset(d) == ReadWait

\* readPump: the read deadline after a data frame was read (the loop does
\* not touch it).
DeadlineAfterFrame(d) == d

\* readPump: the read deadline after the pong handler ran.
DeadlineAfterPong(d) == ReadWait

\* close(client.send): closing a closed channel panics.
CloseChan(c) ==
    /\ closed' = [closed EXCEPT ![c] = TRUE]
    /\ closes' = [closes EXCEPT ![c] = Min(closes[c] + 1, 2)]
    /\ panicked' = closed[c]

(* ------------------------------- Init -------------------------------- *)

InitCommon ==
    /\ clients = {}
    /\ send = [c \in Conns |-> <<>>]
    /\ closed = [c \in Conns |-> FALSE]
    /\ username = [c \in Conns |-> ""]
    /\ room = [c \in Conns |-> ""]
    /\ connClosed = [c \in Conns |-> FALSE]
    /\ hubMsg = NoMsg
    /\ rpc = [c \in Conns |-> "none"]
    /\ rmsg = [c \in Conns |-> NoMsg]
    /\ wpc = [c \in Conns |-> "none"]
    /\ wire = [c \in Conns |-> <<>>]
    /\ closeSent = [c \in Conns |-> FALSE]
    /\ rdl = [c \in Conns |-> ReadWait]
    /\ tkr = [c \in Conns |-> PingPeriod]
    /\ tickC = [c \in Conns |-> FALSE]
    /\ pong = [c \in Conns |-> FALSE]
    /\ panicked = FALSE
    /\ nacc = 0
    /\ frames = 0
    /\ regs = [c \in Conns |-> 0]
    /\ removes = [c \in Conns |-> 0]
    /\ closes = [c \in Conns |-> 0]
    /\ evictedBy = [c \in Conns |-> 0]
    /\ unregd = {}
    /\ sincePong = [c \in Conns |-> 0]
    /\ sinceFrame = [c \in Conns |-> 0]
    /\ rerr = [c \in Conns |-> "none"]
    /\ badRead = [c \in Conns |-> 0]
    /\ heartbeat = [c \in Conns |-> "none"]

\* NewHub, before any request arrived.
Init ==
    /\ InitCommon
    /\ opc = [c \in Conns |-> "idle"]

\* The same, with the upgrade of all but the first TimedConns requests
\* having failed.
InitT ==
    /\ InitCommon
    /\ opc = [c \in Conns |-> IF c <= TimedConns THEN "idle" ELSE "failed"]

(* -------------------------- handleWebSocket -------------------------- *)

\* Requests are numbered in their order of arrival.
Arrived(c) == \A d \in Conns : d < c => opc[d] # "idle"

\* The upgrade fails: the handler returns before any Client exists.
UpgradeFail(c) ==
    /\ ~panicked
    /\ opc[c] = "idle"
    /\ Arrived(c)
    /\ opc' = [opc EXCEPT ![c] = "failed"]
    /\ UNCHANGED <<clients, send, closed, username, room, connClosed, hubMsg, rpc, rmsg, wpc, wire, closeSent, rdl, tkr, tickC,
                   pong, panicked, nacc, frames, regs, removes, closes,
                   evictedBy, unregd, sincePong, sinceFrame, rerr,
                   badRead, heartbeat>>

\* The upgrade succeeds: the Client is created with the defaulted identity
\* and an empty send channel, and the handler blocks on hub.register.
Accept(c) ==
    /\ ~panicked
    /\ opc[c] = "idle"
    /\ Arrived(c)
    /\ \E q \in Queries :
          /\ username' = [username EXCEPT ![c] = DefaultName(q.username)]
          /\ room' = [room EXCEPT ![c] = DefaultRoom(q.room)]
    /\ opc' = [opc EXCEPT ![c] = "register"]
    /\ UNCHANGED <<clients, send, closed, connClosed, hubMsg, rpc, rmsg, wpc, wire, closeSent, rdl, tkr, tickC, pong, panicked,
                   nacc, frames, regs, removes, closes, evictedBy, unregd,
                   sincePong, sinceFrame, rerr,
                   badRead, heartbeat>>

(* ------------------------------ Hub.Run ------------------------------ *)

\* case client := <-h.register
HubRegister(c) ==
    /\ ~panicked
    /\ opc[c] = "register"
    /\ clients' = RegisterAdd(clients, c)
    /\ regs' = [regs EXCEPT ![c] = Min(regs[c] + 1, 2)]
    /\ opc' = [opc EXCEPT ![c] = "join"]
    /\ UNCHANGED <<send, closed, username, room, connClosed, hubMsg,
                   rpc, rmsg, wpc, wire, closeSent, rdl, tkr, tickC, pong,
                   panicked, nacc, frames, removes, closes, evictedBy, unregd,
                   sincePong, sinceFrame, rerr,
                   badRead, heartbeat>>

\* case client := <-h.unregister, and the c.conn.Close() that follows the
\* send in readPump's deferred function.
HubUnregister(c) ==
    /\ ~panicked
    /\ rpc[c] = "unreg"
    /\ IF Present(clients, c)
          THEN /\ clients' = UnregisterDelete(clients, c)
               /\ removes' = [removes EXCEPT ![c] = Min(removes[c] + 1, 2)]
               /\ unregd' = unregd \cup {c}
               /\ CloseChan(c)
          ELSE UNCHANGED <<clients, removes, unregd, closed, closes, panicked>>
    /\ rpc' = [rpc EXCEPT ![c] = "exit"]
    /\ connClosed' = [connClosed EXCEPT ![c] = TRUE]
    /\ UNCHANGED <<send, username, room, hubMsg, opc, rmsg,
                   wpc, wire, closeSent, rdl, tkr, tickC, pong, nacc, frames, regs,
                   evictedBy, sincePong, sinceFrame, rerr,
                   badRead, heartbeat>>

\* A range loop that skips the clients whose writePump has returned.
TargetsLive(m) == {c \in clients : RoomMatch(c, m) /\ wpc[c] = "run"}

\* The clients the range loop of the broadcast case sends m to.
Targets(m) == {c \in clients : RoomMatch(c, m)}

\* case message := <-h.broadcast: every client of the message's room gets
\* the message without blocking, or is evicted (channel closed, client
\* deleted) if its channel is full. A send on a closed channel panics.
Broadcast(m) ==
    LET full == {c \in Targets(m) : SelectSend(send[c]) = "default"}
        sent == {c \in Targets(m) : SelectSend(send[c]) = "sent"}
    IN  /\ \A c \in Targets(m) : SelectSend(send[c]) # "blocked"
        /\ hubMsg' = m
        /\ nacc' = m.seq
        /\ panicked' = (\E c \in Targets(m) : closed[c])
        /\ send' = [c \in Conns |->
                      IF c \in sent /\ ~closed[c] THEN Enqueue(send[c], m)
                      ELSE send[c]]
        /\ closed' = EvictClose(closed, full)
        /\ closes' = [c \in Conns |->
                      IF c \in full /\ ~closed[c] THEN Min(closes[c] + 1, 2)
                      ELSE closes[c]]
        /\ removes' = [c \in Conns |->
                      IF c \in full /\ ~closed[c] THEN Min(removes[c] + 1, 2)
                      ELSE removes[c]]
        /\ evictedBy' = [c \in Conns |->
                      IF c \in full /\ ~closed[c] THEN m.seq ELSE evictedBy[c]]
        /\ clients' = EvictDelete(clients, {c \in full : ~closed[c]})

\* hub.broadcast <- joinMsg of handleWebSocket is received. The handler
\* then starts both pumps; readPump sets the read deadline and writePump
\* its ticker.
HubAcceptJoin(c) ==
    /\ ~panicked
    /\ opc[c] = "join"
    /\ Broadcast([JoinMsg(username[c], room[c]) EXCEPT !.seq = nacc + 1])
    /\ opc' = [opc EXCEPT ![c] = "done"]
    /\ rpc' = [rpc EXCEPT ![c] = "read"]
    /\ wpc' = [wpc EXCEPT ![c] = "run"]
    /\ rdl' = [rdl EXCEPT ![c] = ReadWait]
    /\ tkr' = [tkr EXCEPT ![c] = PingPeriod]
    /\ tickC' = [tickC EXCEPT ![c] = FALSE]
    /\ sincePong' = [sincePong EXCEPT ![c] = 0]
    /\ sinceFrame' = [sinceFrame EXCEPT ![c] = 0]
    /\ UNCHANGED <<username, room, connClosed, rmsg, wire, closeSent, pong,
                   frames, regs, unregd, rerr,
                   badRead, heartbeat>>

\* hub.broadcast <- msg of a readPump is received; the pump goes back to
\* reading.
HubAcceptChat(c) ==
    /\ ~panicked
    /\ rpc[c] = "bcast"
    /\ Broadcast([rmsg[c] EXCEPT !.seq = nacc + 1])
    /\ rpc' = [rpc EXCEPT ![c] = "read"]
    /\ rmsg' = [rmsg EXCEPT ![c] = NoMsg]
    /\ UNCHANGED <<username, room, connClosed, opc, wpc, wire, closeSent,
                   rdl, tkr, tickC, pong, frames, regs, unregd, sincePong,
                   sinceFrame, rerr,
                   badRead, heartbeat>>

(* ----------------------------- readPump ------------------------------ *)

\* ReadMessage returns a data frame. A payload that does not decode is
\* dropped and the loop goes on; a decoded one is stamped with the
\* client's identity and the pump blocks on hub.broadcast.
ReadFrame(c) ==
    /\ ~panicked
    /\ rpc[c] = "read"
    /\ ~connClosed[c]
    /\ rdl[c] > 0
    /\ frames < MaxFrames
    /\ frames' = frames + 1
    /\ rdl' = [rdl EXCEPT ![c] = DeadlineAfterFrame(@)]
    /\ sinceFrame' = [sinceFrame EXCEPT ![c] = 0]
    /\ \E p \in Payloads :
          /\ badRead' = [badRead EXCEPT ![c] = IF p.wellFormed THEN @ ELSE @ + 1]
          /\ IF Decodes(p)
                THEN /\ rmsg' = [rmsg EXCEPT ![c] = Stamp(c, p)]
                     /\ rpc' = [rpc EXCEPT ![c] = "bcast"]
                ELSE UNCHANGED <<rmsg, rpc>>
    /\ UNCHANGED <<clients, send, closed, username, room, connClosed, hubMsg, opc, wpc, wire, closeSent, tkr, tickC,
                   pong, panicked, nacc, regs, removes, closes, evictedBy,
                   unregd, sincePong, rerr,
                   heartbeat>>

\* ReadMessage runs the pong handler on a pong frame and keeps reading.
ReadPong(c) ==
    /\ ~panicked
    /\ rpc[c] = "read"
    /\ ~connClosed[c]
    /\ rdl[c] > 0
    /\ pong[c]
    /\ pong' = [pong EXCEPT ![c] = FALSE]
    /\ rdl' = [rdl EXCEPT ![c] = DeadlineAfterPong(@)]
    /\ sincePong' = [sincePong EXCEPT ![c] = 0]
    /\ sinceFrame' = [sinceFrame EXCEPT ![c] = 0]
    /\ heartbeat' = [heartbeat EXCEPT ![c] = IF @ = "lapse" THEN @ ELSE "ok"]
    /\ UNCHANGED <<clients, send, closed, username, room, connClosed, hubMsg, opc, rpc, rmsg, wpc, wire, closeSent, tkr,
                   tickC, panicked, nacc, frames, regs, removes, closes,
                   evictedBy, unregd, rerr,
                   badRead>>

\* ReadMessage returns an error (the peer closed, the transport failed, or
\* the connection was closed by writePump): the loop breaks and the
\* deferred function blocks on hub.unregister.
ReadError(c) ==
    /\ ~panicked
    /\ rpc[c] = "read"
    /\ rpc' = [rpc EXCEPT ![c] = "unreg"]
    /\ rerr' = [rerr EXCEPT ![c] = "error"]
    /\ UNCHANGED <<clients, send, closed, username, room, connClosed, hubMsg, opc, rmsg, wpc, wire, closeSent, rdl, tkr,
                   tickC, pong, panicked, nacc, frames, regs, removes, closes,
                   evictedBy, unregd, sincePong, sinceFrame,
                   badRead, heartbeat>>

\* ReadMessage returns a timeout error: the read deadline has passed.
ReadTimeout(c) ==
    /\ ~panicked
    /\ rpc[c] = "read"
    /\ rdl[c] = 0
    /\ rpc' = [rpc EXCEPT ![c] = "unreg"]
    /\ rerr' = [rerr EXCEPT ![c] = "timeout"]
    /\ UNCHANGED <<clients, send, closed, username, room, connClosed, hubMsg, opc, rmsg, wpc, wire, closeSent, rdl, tkr,
                   tickC, pong, panicked, nacc, frames, regs, removes, closes,
                   evictedBy, unregd, sincePong, sinceFrame,
                   badRead, heartbeat>>

(* ----------------------------- writePump ----------------------------- *)

\* case message, ok := <-c.send with ok: WriteJSON succeeds, or fails (it
\* always fails on a closed connection) and the pump returns, closing the
\* connection.
WriteMsg(c) ==
    /\ ~panicked
    /\ wpc[c] = "run"
    /\ send[c] # <<>>
    /\ send' = [send EXCEPT ![c] = Recv(@).rest]
    /\ \E ok \in (IF connClosed[c] THEN {FALSE} ELSE BOOLEAN) :
          IF ok
             THEN /\ wire' = [wire EXCEPT ![c] = Append(@, Recv(send[c]).msg)]
                  /\ UNCHANGED <<wpc, connClosed>>
             ELSE /\ wpc' = [wpc EXCEPT ![c] = "exit"]
                  /\ connClosed' = WritePumpDefer(connClosed, c)
                  /\ UNCHANGED wire
    /\ UNCHANGED <<clients, closed, username, room, hubMsg, opc, rpc, rmsg, closeSent, rdl, tkr, tickC, pong, panicked,
                   nacc, frames, regs, removes, closes, evictedBy, unregd,
                   sincePong, sinceFrame, rerr,
                   badRead, heartbeat>>

\* case message, ok := <-c.send with !ok: the channel is closed and empty.
\* A close message is written (its error is ignored) and the pump returns.
WriteClose(c) ==
    /\ ~panicked
    /\ wpc[c] = "run"
    /\ RecvClosed(send[c], closed[c])
    /\ \E ok \in (IF connClosed[c] THEN {FALSE} ELSE BOOLEAN) :
          closeSent' = [closeSent EXCEPT ![c] = ok]
    /\ wpc' = [wpc EXCEPT ![c] = "exit"]
    /\ connClosed' = WritePumpDefer(connClosed, c)
    /\ UNCHANGED <<clients, send, closed, username, room, hubMsg,
                   opc, rpc, rmsg, wire, rdl, tkr, tickC, pong,
                   panicked, nacc, frames, regs, removes, closes, evictedBy,
                   unregd, sincePong, sinceFrame, rerr,
                   badRead, heartbeat>>

\* case <-ticker.C: a ping is written; the peer may answer it with a pong.
\* A failed write ends the pump.
WritePing(c) ==
    /\ ~panicked
    /\ wpc[c] = "run"
    /\ tickC[c]
    /\ tickC' = [tickC EXCEPT ![c] = FALSE]
    /\ \E ok \in (IF connClosed[c] THEN {FALSE} ELSE BOOLEAN) :
          IF ok
             THEN /\ \E answer \in BOOLEAN :
                        /\ pong' = [pong EXCEPT ![c] = @ \/ answer]
                        /\ heartbeat' = [heartbeat EXCEPT ![c] =
                                            IF answer THEN @ ELSE "lapse"]
                  /\ UNCHANGED <<wpc, connClosed>>
             ELSE /\ wpc' = [wpc EXCEPT ![c] = "exit"]
                  /\ connClosed' = WritePumpDefer(connClosed, c)
                  /\ UNCHANGED <<pong, heartbeat>>
    /\ UNCHANGED <<clients, send, closed, username, room, hubMsg,
                   opc, rpc, rmsg, wire, closeSent, rdl, tkr,
                   panicked, nacc, frames, regs, removes, closes, evictedBy,
                   unregd, sincePong, sinceFrame, rerr,
                   badRead>>

(* ------------------------------- time -------------------------------- *)

Reading(c) == rpc[c] \in {"read", "bcast"}

\* TimeUnit seconds pass: the read deadlines of the running readPumps come
\* nearer, and the tickers of the running writePumps fire when due.
Tick ==
    /\ ~panicked
    /\ \E c \in Conns : Reading(c) \/ wpc[c] = "run"
    /\ rdl' = [c \in Conns |->
                 IF Reading(c) THEN Monus(rdl[c], TimeUnit) ELSE rdl[c]]
    /\ sincePong' = [c \in Conns |->
                 IF Reading(c) THEN Min(sincePong[c] + TimeUnit, ReadWait)
                 ELSE sincePong[c]]
    /\ sinceFrame' = [c \in Conns |->
                 IF Reading(c) THEN Min(sinceFrame[c] + TimeUnit, ReadWait)
                 ELSE sinceFrame[c]]
    /\ tkr' = [c \in Conns |->
                 IF wpc[c] # "run" THEN tkr[c]
                 ELSE IF tkr[c] <= TimeUnit THEN PingPeriod
                 ELSE tkr[c] - TimeUnit]
    /\ tickC' = [c \in Conns |->
                 tickC[c] \/ (wpc[c] = "run" /\ tkr[c] <= TimeUnit)]
    /\ heartbeat' = [c \in Conns |->
                 IF Reading(c) /\ (tickC[c] \/ pong[c] \/ wpc[c] # "run")
                 THEN "lapse" ELSE heartbeat[c]]
    /\ UNCHANGED <<clients, send, closed, username, room, connClosed, hubMsg, opc, rpc, rmsg, wpc, wire, closeSent,
                   pong, panicked, nacc, frames, regs, removes, closes,
                   evictedBy, unregd, rerr,
                   badRead>>

(* --------------------------- specifications -------------------------- *)

\* The program with time abstracted away: no deadline expires and no
\* ticker fires, read errors happen at any moment.
Next ==
    \/ \E c \in Conns : UpgradeFail(c)
    \/ \E c \in Conns : Accept(c)
    \/ \E c \in Conns : HubRegister(c)
    \/ \E c \in Conns : HubUnregister(c)
    \/ \E c \in Conns : HubAcceptJoin(c)
    \/ \E c \in Conns : HubAcceptChat(c)
    \/ \E c \in Conns : ReadFrame(c)
    \/ \E c \in Conns : ReadError(c)
    \/ \E c \in Conns : WriteMsg(c)
    \/ \E c \in Conns : WriteClose(c)

Spec == Init /\ [][Next]_vars

\* The program with its clock.
NextT ==
    \/ Next
    \/ \E c \in Conns : ReadPong(c)
    \/ \E c \in Conns : ReadTimeout(c)
    \/ \E c \in Conns : WritePing(c)
    \/ Tick

SpecT == InitT /\ [][NextT]_vars

\* ReadMessage on a connection that writePump has closed returns an error
\* at once.
ReadClosed(c) == connClosed[c] /\ ReadError(c)

\* Scheduling of the hub: its select takes every request that stays
\* pending on one of its channels.
FairHub ==
    \A c \in Conns :
       /\ WF_vars(HubRegister(c))
       /\ WF_vars(HubUnregister(c))
       /\ WF_vars(HubAcceptJoin(c))
       /\ WF_vars(HubAcceptChat(c))

\* The untimed program with a fair hub.
SpecH == Spec /\ FairHub

\* Scheduling: a goroutine that can run does run. Besides the hub, a
\* writePump whose select has a ready case takes it, and its write returns
\* within the write deadline; a read on a closed connection returns.
Fair ==
    /\ FairHub
    /\ \A c \in Conns :
       /\ WF_vars(WriteMsg(c))
       /\ WF_vars(WriteClose(c))
       /\ WF_vars(ReadClosed(c))

\* The untimed program under fair scheduling.
SpecF == Spec /\ Fair

\* The timed program under the part of that scheduling the read deadline
\* relies on: a read whose deadline has passed returns, and the hub takes
\* the requests of the readPump.
FairT ==
    \A c \in Conns :
       /\ WF_vars(ReadTimeout(c))
       /\ WF_vars(HubAcceptChat(c))
       /\ WF_vars(HubUnregister(c))

SpecTF == SpecT /\ FairT

(* ------------------------------ claims ------------------------------- *)

Range(q) == {q[i] : i \in DOMAIN q}

Full(c) == Len(send[c]) = QueueCap

\* A step in which the hub processed a broadcast; hubMsg' is its message.
BroadcastStep == nacc' # nacc

\* C1: Room isolation. When the hub processes a broadcast of a message of
\* room R, the message is appended to the queue of every client in the set
\* whose room is R and whose queue is not full, and the queue of every
\* connection of another room is unchanged; no connection ever writes to
\* its peer a message of a room other than its own.
C1_RoomIsolation ==
    /\ [][BroadcastStep =>
            \A c \in Conns :
               /\ (c \in clients /\ room[c] = hubMsg'.room /\ ~Full(c))
                     => send'[c] = Append(send[c], hubMsg')
               /\ room[c] # hubMsg'.room => send'[c] = send[c]]_vars
    /\ [](\A c \in Conns : \A m \in Range(wire[c]) \cup Range(send[c]) :
             m.room = room[c])

\* Two registered clients of different rooms, after a chat message of the
\* room of the first: the first has written it to its peer, the second
\* has nothing but its own join.
C1_Witness ==
    \E c, d \in clients :
       /\ room[c] # room[d]
       /\ hubMsg.type = "message"
       /\ hubMsg.room = room[c]
       /\ hubMsg \in Range(wire[c])
       /\ Len(send[d]) + Len(wire[d]) = 1

\* C2: Eviction. A client of the set whose queue is full when a broadcast
\* of its room is processed is, in that step, deleted from the set and has
\* its queue closed, once; the message is not enqueued for it; and no
\* later broadcast changes the queue, or the closing, of an evicted client.
C2_Eviction ==
    /\ [][BroadcastStep =>
            \A c \in Conns :
               /\ (c \in clients /\ room[c] = hubMsg'.room /\ Full(c))
                     => /\ c \notin clients'
                        /\ ~closed[c] /\ closed'[c]
                        /\ closes[c] = 0 /\ closes'[c] = 1
                        /\ evictedBy'[c] = hubMsg'.seq
                        /\ send'[c] = send[c]
               /\ evictedBy[c] # 0
                     => /\ c \notin clients'
                        /\ send'[c] = send[c]
                        /\ closed'[c] /\ closes'[c] = 1]_vars
    /\ [](/\ ~panicked
          /\ \A c \in Conns :
                evictedBy[c] # 0
                   => c \notin clients /\ closed[c] /\ closes[c] = 1)

\* A client was evicted, and a later broadcast of its room was processed.
C2_Witness ==
    \E c \in Conns :
       /\ evictedBy[c] # 0
       /\ hubMsg.seq > evictedBy[c]
       /\ hubMsg.room = room[c]
       /\ Len(send[c]) = QueueCap

\* C3: Broadcast never blocks on a consumer. Whatever the queues hold, and
\* whether or not any writePump runs, the hub accepts and completes the
\* request of every goroutine blocked on one of its channels: a broadcast
\* is processed without any queue being drained first, and the hub is then
\* again ready for every pending register, unregister and broadcast.
C3_NeverBlocks ==
    ~panicked =>
       \A c \in Conns :
          /\ opc[c] = "register" => ENABLED HubRegister(c)
          /\ opc[c] = "join" => ENABLED HubAcceptJoin(c)
          /\ rpc[c] = "bcast" => ENABLED HubAcceptChat(c)
          /\ rpc[c] = "unreg" => ENABLED HubUnregister(c)

\* One broadcast found the queues of two clients of its room full, evicted
\* both and completed, and another broadcast was processed after it.
C3_Witness ==
    \E c, d \in Conns :
       /\ c # d
       /\ evictedBy[c] # 0
       /\ evictedBy[c] = evictedBy[d]
       /\ nacc > evictedBy[c]

\* C4: Per-room ordering. Every connection writes the messages to its
\* peer in the order in which the hub accepted their broadcasts (seq), and
\* holds them in that order in its queue.
C4_Ordering ==
    \A c \in Conns :
       LET all == wire[c] \o send[c]
       IN  \A i, j \in DOMAIN all : i < j => all[i].seq < all[j].seq

\* A connection has written two messages of two different senders.
C4_Witness ==
    \E c \in Conns :
       /\ Len(wire[c]) >= 2
       /\ wire[c][1].type = "join"
       /\ wire[c][2].type = "message"
       /\ wire[c][2].username # username[c]

\* C5: Idempotent unregister. Processing the unregister request of a
\* connection that is not in the set changes neither the set nor any
\* queue nor any queue's closing, and panics on no second close; no queue
\* is ever closed twice.
C5_IdempotentUnregister ==
    /\ [][\A c \in Conns :
            (rpc[c] = "unreg" /\ rpc'[c] = "exit" /\ c \notin clients)
               => /\ clients' = clients
                  /\ send' = send
                  /\ closed' = closed
                  /\ closes' = closes
                  /\ ~panicked']_vars
    /\ [](\A c \in Conns : closes[c] <= 1)

\* The unregister request of a connection the hub had evicted before was
\* processed.
C5_Witness ==
    \E c \in Conns :
       /\ evictedBy[c] # 0
       /\ rpc[c] = "exit"
       /\ c \notin unregd

\* C6: Identity integrity. Every message a readPump submits to the hub,
\* and every chat message the hub accepts from it, has the username and
\* the room of the client, whatever the payload carried.
C6_IdentityIntegrity ==
    /\ [](\A c \in Conns :
             rpc[c] = "bcast"
                => rmsg[c].username = username[c] /\ rmsg[c].room = room[c])
    /\ [][\A c \in Conns :
            (rpc[c] = "bcast" /\ rpc'[c] = "read")
               => /\ hubMsg'.username = username[c]
                  /\ hubMsg'.room = room[c]]_vars

\* The hub accepted a chat message of a client whose username and room no
\* payload carries.
C6_Witness ==
    \E c \in Conns :
       /\ username[c] \notin PayloadNames
       /\ room[c] \notin PayloadRooms
       /\ hubMsg.type = "message"
       /\ hubMsg.username = username[c]
       /\ rpc[c] = "bcast"

\* The step in which the hub accepts the join notification of a.
JoinStep(a) == opc[a] = "join" /\ opc'[a] = "done"

\* C7 as stated: the join notification of A is received by every member
\* of A's room at that time and by A itself.
C7_Original ==
    [][\A a \in Conns :
          JoinStep(a) =>
             \A c \in Conns :
                (c = a \/ (c \in clients /\ room[c] = room[a]))
                   => hubMsg' \in Range(send'[c])]_vars

\* C7, amended: the join notification of A, of type join, of A's room, with
\* A's username and a content naming it, is broadcast after A was
\* registered; it is enqueued for every client of the set of A's room
\* whose queue is not full, A included if still in the set, and a member
\* whose queue is full is evicted without it. A is in the set at that
\* time unless a broadcast evicted it before.
C7_JoinBroadcast ==
    [][\A a \in Conns :
          JoinStep(a) =>
             /\ hubMsg'.type = "join"
             /\ hubMsg'.room = room[a]
             /\ hubMsg'.username = username[a]
             /\ hubMsg'.content = username[a] \o " joined the room"
             /\ regs[a] = 1
             /\ a \in clients \/ evictedBy[a] # 0
             /\ \A c \in Conns :
                   (c \in clients /\ room[c] = room[a]) =>
                      IF Full(c)
                         THEN c \notin clients' /\ send'[c] = send[c]
                         ELSE send'[c] = Append(send[c], hubMsg')]_vars

\* The join notification of the second client is in the queue of the
\* first, a member of its room, and in its own.
C7_Witness ==
    \E a, c \in clients :
       /\ a # c
       /\ room[a] = room[c]
       /\ hubMsg.type = "join"
       /\ hubMsg.username = username[a]
       /\ hubMsg \in Range(send[a])
       /\ hubMsg \in Range(send[c])
       /\ Len(send[a]) = 1

\* C8: At-most-once lifecycle transitions. Each connection is added to the
\* set at most once, deleted from it at most once and has its queue closed
\* at most once (a second close would panic), whatever the interleaving of
\* read errors, write errors and evictions.
C8_AtMostOnce ==
    /\ ~panicked
    /\ \A c \in Conns : regs[c] <= 1 /\ removes[c] <= 1 /\ closes[c] <= 1
    /\ \A c \in Conns : removes[c] <= regs[c] /\ closes[c] = removes[c]

\* One connection was evicted and its two pumps then ended, the writePump
\* on the closed queue and the readPump on a read error; the other was
\* unregistered after a write error ended its writePump.
C8_Witness ==
    \E c, d \in Conns :
       /\ evictedBy[c] # 0 /\ rpc[c] = "exit" /\ closeSent[c]
       /\ d \in unregd /\ wpc[d] = "exit" /\ ~closeSent[d] /\ send[d] # <<>>

\* C9: Membership. In every reachable state the set holds exactly the
\* connections whose register request was processed and that were since
\* neither unregistered nor evicted; and a connection deleted from the
\* set never comes back.
C9_Membership ==
    /\ [](clients =
            {c \in Conns : opc[c] \in {"join", "done"}}
               \ (unregd \cup {c \in Conns : evictedBy[c] # 0}))
    /\ [][\A c \in Conns : (c \in clients' /\ c \notin clients)
                              => removes[c] = 0 /\ opc[c] = "register"]_vars

\* One connection is in the set while another was unregistered, or
\* evicted, after its registration.
C9_Witness ==
    \E c, d \in Conns :
       /\ c \in clients
       /\ d \in unregd
       /\ opc[c] = "done"
       /\ nacc > 2

\* C10 as stated: every successful read of a frame resets the read
\* deadline to a full window, so no connection is ended by the read
\* deadline less than a full window after its last inbound frame.
C10_Original ==
    \A c \in Conns :
       /\ Reading(c) => rdl[c] + sinceFrame[c] >= ReadWait
       /\ rerr[c] = "timeout" => sinceFrame[c] >= ReadWait

\* C10, amended: the read deadline is a full window after the start of
\* readPump or, if later, after the last pong; reading a data frame does
\* not move it. A connection is ended by the read deadline a full window
\* after the later of the two, whatever frames its peer sent meanwhile.
C10_ReadDeadline ==
    /\ [](\A c \in Conns :
             /\ Reading(c) => rdl[c] + sincePong[c] = ReadWait
             /\ rerr[c] = "timeout" => sincePong[c] = ReadWait)
    /\ [][\A c \in Conns :
             (rpc[c] = "read" /\ frames' # frames /\ sinceFrame'[c] = 0
                 /\ rpc'[c] # "unreg")
                => rdl'[c] = rdl[c]]_vars

\* A connection was ended by the read deadline although a frame of its
\* peer had been read less than a full window before.
C10_Witness ==
    \E c \in Conns :
       /\ rerr[c] = "timeout"
       /\ sinceFrame[c] < ReadWait
       /\ sinceFrame[c] > 0

\* C11: Liveness timeout. Once a full read-deadline window has passed on a
\* connection without an inbound frame or a pong, the read deadline has
\* expired; the readPump then ends, its unregister request is processed,
\* and the connection is out of the set with its queue closed.
C11_LivenessTimeout ==
    /\ [](\A c \in Conns :
             (rpc[c] = "read" /\ sinceFrame[c] = ReadWait) => rdl[c] = 0)
    /\ [][\A c \in Conns :
             (rpc[c] = "unreg" /\ rpc'[c] = "exit")
                => c \notin clients' /\ closed'[c]]_vars
    /\ \A c \in Conns :
          (Reading(c) /\ sinceFrame[c] = ReadWait)
             ~> (rpc[c] = "exit" /\ c \notin clients /\ closed[c])

\* A connection whose peer sent nothing was ended by the read deadline and
\* unregistered.
C11_Witness ==
    \E c \in Conns :
       /\ frames = 0
       /\ sinceFrame[c] = ReadWait
       /\ rerr[c] = "timeout"
       /\ rpc[c] = "exit"
       /\ c \in unregd
       /\ closed[c]

\* A terminal condition has occurred on the connection: its readPump has
\* left the read loop (read failure or timeout), its writePump has returned
\* (write failure or closed queue), or the hub has evicted it.
Terminal(c) ==
    \/ rpc[c] \in {"unreg", "exit"}
    \/ wpc[c] = "exit"
    \/ evictedBy[c] # 0

\* The connection is Closed: both pumps exited, queue closed, transport
\* released, not in the hub's set.
IsClosed(c) ==
    /\ rpc[c] = "exit"
    /\ wpc[c] = "exit"
    /\ closed[c]
    /\ connClosed[c]
    /\ c \notin clients

\* C12: Teardown completes. Under fair scheduling, once a terminal
\* condition has occurred on a connection (read failure or timeout, write
\* failure, or eviction, whichever comes first), the connection eventually
\* is Closed.
C12_TeardownCompletes ==
    \A c \in Conns : Terminal(c) ~> IsClosed(c)

\* A connection that the hub evicted has been torn down completely, its
\* readPump ended by the closed transport.
C12_Witness ==
    \E c \in Conns :
       /\ evictedBy[c] # 0
       /\ c \notin unregd
       /\ rerr[c] = "error"
       /\ IsClosed(c)

\* C13: Decode errors are non-fatal. A readPump that reads a frame whose
\* payload does not decode drops it: nothing is submitted to the hub, the
\* set and every queue are unchanged, and the same pump goes on reading,
\* its connection as registered as before.
C13_DecodeNonFatal ==
    [][\A c \in Conns :
          badRead'[c] # badRead[c] =>
             /\ rpc[c] = "read"
             /\ rpc' = rpc
             /\ rmsg' = rmsg
             /\ rerr' = rerr
             /\ nacc' = nacc
             /\ hubMsg' = hubMsg
             /\ clients' = clients
             /\ send' = send
             /\ closed' = closed
             /\ connClosed' = connClosed]_vars

\* A registered connection sent a frame that did not decode, and its pump
\* then read a further frame, which it is submitting.
C13_Witness ==
    \E c \in Conns :
       /\ badRead[c] = 1
       /\ rpc[c] = "bcast"
       /\ c \in clients

\* C14, as the specification states it: a writePump that is running when
\* the hub closes its queue sends a close notification to the peer before
\* it terminates.
C14_Original ==
    [][\A c \in Conns :
          (closed[c] /\ wpc[c] = "run" /\ wpc'[c] = "exit") => closeSent'[c]]_vars

\* C14: Evicted connection observes a close. After the hub has closed a
\* connection's queue, its writePump, if still running, eventually
\* terminates with the transport released. It writes the close
\* notification only once the closed queue is drained and while the
\* transport is still open, as its last act. The broadcast that evicts
\* delivers nothing to its sender but the message itself: the sender's pump
\* goes back to reading and nothing is written to any peer.
C14_EvictedObservesClose ==
    /\ \A c \in Conns :
          (closed[c] /\ wpc[c] = "run") ~> (wpc[c] = "exit" /\ connClosed[c])
    /\ [][\A c \in Conns :
             (closeSent'[c] /\ ~closeSent[c]) =>
                /\ closed[c]
                /\ send[c] = <<>>
                /\ ~connClosed[c]
                /\ wpc[c] = "run" /\ wpc'[c] = "exit"
                /\ connClosed'[c]]_vars
    /\ [][\A s \in Conns :
             (rpc[s] = "bcast" /\ rpc'[s] = "read") =>
                /\ rerr' = rerr
                /\ connClosed' = connClosed
                /\ wire' = wire
                /\ closeSent' = closeSent
                /\ send'[s] \in {send[s], Append(send[s], hubMsg')}]_vars

\* An evicted connection whose writePump drained the queue and wrote the
\* close notification.
C14_Witness ==
    \E c \in Conns :
       /\ evictedBy[c] # 0
       /\ closeSent[c]
       /\ wpc[c] = "exit"
       /\ connClosed[c]

\* C15: Outbound-pump termination does not unregister. The step in which a
\* writePump terminates leaves the hub's set and the open/closed status of
\* every queue as they were and submits no unregister request. A
\* connection leaves the set only when the hub processes its readPump's
\* unregister request or evicts it; until then it is a broadcast target,
\* its writePump gone or not.
C15_WriterExitKeepsClient ==
    /\ [][\A c \in Conns :
             (wpc[c] = "run" /\ wpc'[c] = "exit") =>
                /\ clients' = clients
                /\ closed' = closed
                /\ rpc' = rpc]_vars
    /\ [][\A c \in Conns :
             (c \in clients /\ c \notin clients') =>
                \/ rpc[c] = "unreg" /\ rpc'[c] = "exit"
                \/ BroadcastStep /\ Full(c) /\ evictedBy'[c] = nacc']_vars
    /\ [][\A c \in Conns :
             (BroadcastStep /\ c \in clients /\ wpc[c] = "exit"
                 /\ RoomMatch(c, hubMsg') /\ ~Full(c))
                => send'[c] = Append(send[c], hubMsg')]_vars

\* A connection whose writePump failed is still registered with an open
\* queue, and has been sent a broadcast since: its queue is full although
\* the failed write took a message out of it.
C15_Witness ==
    \E c \in Conns :
       /\ wpc[c] = "exit"
       /\ rpc[c] = "read"
       /\ c \in clients
       /\ ~closed[c]
       /\ Len(send[c]) = QueueCap

\* C16: Heartbeat keeps a responsive peer alive. The ping period is
\* shorter than the read-deadline window, so as long as every ping of a
\* connection has been written when due and answered by a pong that the
\* readPump handled before more time passed, the read deadline of the
\* connection has not expired, whether or not the peer sends frames; a
\* readPump ends by timeout only after such a lapse.
C16_HeartbeatKeepsAlive ==
    /\ PingPeriod < ReadWait
    /\ \A c \in Conns :
          /\ (Reading(c) /\ heartbeat[c] # "lapse") => rdl[c] >= ReadWait - PingPeriod
          /\ rerr[c] = "timeout" => heartbeat[c] = "lapse"

\* A connection whose peer sent no frame is reading a full ping period
\* after a pong that came in time: it has outlived the read-deadline window
\* of its start.
C16_Witness ==
    \E c \in Conns :
       /\ frames = 0
       /\ heartbeat[c] = "ok"
       /\ rpc[c] = "read"
       /\ sincePong[c] = PingPeriod
       /\ rdl[c] > 0

\* C17: Queue-open invariant. Every connection in the hub's set has an
\* open queue, so every connection whose queue is closed is absent from
\* the set; the hub never enqueues onto a closed queue (which would panic)
\* and never closes a queue twice.
C17_QueueOpen ==
    /\ [](\A c \in Conns : c \in clients => ~closed[c])
    /\ [](~panicked /\ \A c \in Conns : closes[c] <= 1)
    /\ [][\A c \in Conns :
             /\ Len(send'[c]) > Len(send[c]) => ~closed[c] /\ c \in clients
             /\ closes'[c] # closes[c] => ~closed[c] /\ c \in clients]_vars

\* After one connection was evicted and its queue closed, a broadcast to
\* its room was processed and enqueued for a connection still in the set.
C17_Witness ==
    \E c, d \in Conns :
       /\ closed[c] /\ c \notin clients
       /\ evictedBy[c] # 0
       /\ d \in clients
       /\ hubMsg.room = room[c]
       /\ hubMsg.seq > evictedBy[c]
       /\ hubMsg \in Range(send[d])

\* A request of the connection is blocked on a channel of the hub: the
\* register or the join broadcast of its handler, the broadcast or the
\* unregister of its readPump.
Pending(c) == opc[c] \in {"register", "join"} \/ rpc[c] \in {"bcast", "unreg"}

\* C18: No deadlock. The hub never dies, and with a fair hub every request
\* blocked on one of its channels is eventually accepted: a connection
\* with a pending request (which only its acceptance can end) eventually
\* has none.
C18_NoDeadlock ==
    /\ []~panicked
    /\ \A c \in Conns : Pending(c) ~> ~Pending(c)

\* Every connection went through all four kinds of request, one of them
\* while the other's queue was full or its writePump gone, and all were
\* accepted.
C18_Witness ==
    /\ \A c \in Conns : opc[c] = "done" /\ rpc[c] = "exit" /\ regs[c] = 1
    /\ frames = MaxFrames
    /\ \E c \in Conns : evictedBy[c] # 0
    /\ nacc = NumConns + MaxFrames

\* C19: No gap, no duplicate. While a connection is in the set, every
\* broadcast of its room that the hub accepts either puts its message once
\* at the end of the connection's queue or, finding the queue full, evicts
\* the connection with that very broadcast; nothing else is ever put on a
\* queue, which otherwise only loses its head to the writePump. The hub
\* numbers the broadcasts it accepts consecutively. So the messages
\* enqueued between registration and removal are the accepted broadcasts
\* of the room in that interval, each once and in order, but for the one
\* that evicts.
C19_NoGapNoDuplicate ==
    /\ [][\A c \in Conns :
             IF BroadcastStep /\ c \in clients /\ RoomMatch(c, hubMsg')
                THEN \/ /\ ~Full(c)
                        /\ send'[c] = Append(send[c], hubMsg')
                        /\ c \in clients'
                     \/ /\ Full(c)
                        /\ send'[c] = send[c]
                        /\ c \notin clients'
                        /\ evictedBy'[c] = hubMsg'.seq
                ELSE \/ send'[c] = send[c]
                     \/ send[c] # <<>> /\ send'[c] = Tail(send[c])]_vars
    /\ [][BroadcastStep => nacc' = nacc + 1 /\ hubMsg'.seq = nacc']_vars

\* A connection got the first, second and fourth broadcast: the third was
\* of another room.
C19_Witness ==
    \E c \in Conns :
       LET all == wire[c] \o send[c]
       IN  /\ c \in clients
           /\ [i \in DOMAIN all |-> all[i].seq] = <<1, 2, 4>>

\* C20: Only registered connections inject messages. Every chat message
\* the hub accepts for broadcast from a readPump comes from a connection
\* that is in the set when the hub accepts it.
C20_OnlyRegisteredInject ==
    [][\A c \in Conns :
          (rpc[c] = "bcast" /\ rpc'[c] = "read") => c \in clients]_vars

====
